---- MODULE Spec2Model ----
(***************************************************************************)
(* Aurum_Solace: the event store (app/storage.py) and the derived-state    *)
(* engines of app/main.py.                                                 *)
(*                                                                         *)
(* Text values (mood, energy, focus, device, free text) are sequences of   *)
(* one-character strings, so that lower() and substring search are         *)
(* computed character by character.  A stored timestamp is the             *)
(* sequence of the digits of datetime.isoformat(): two digits of date and  *)
(* one digit of time of day; SQLite compares TEXT values bytewise, which   *)
(* is the lexicographic order on these sequences.                          *)
(***************************************************************************)
EXTENDS Integers, Sequences, FiniteSets, TLC

VARIABLES
    now,             \* the system clock (UTC), in ticks since day 0
    tz,              \* the process's local-time offset from UTC, in ticks
    mood_logs,       \* table mood_logs, rows in rowid order
    action_logs,     \* table action_logs, rows in rowid order
    actuation_logs,  \* the actuation records the store holds, oldest first
    call,            \* the operation performed last, with its arguments
    ret              \* what that operation returned, or the exception it raised

vars == <<now, tz, mood_logs, action_logs, actuation_logs, call, ret>>

(* ------------------------------ bounds -------------------------------- *)
\* clock resolution and the range of local-time offsets, in ticks
TicksPerDay == 2
MaxTz == 1
\* the streak and actuation runs: clock horizon and table sizes
MaxTime == 5
MaxActions == 3
MaxMoods == 2
\* the history runs: clock horizon, table sizes, largest LIMIT
MaxHistoryTime == 2
MaxHistoryRows == 2
MaxLimit == 2
\* the texts given to the classifier: how many fragments make one up
MaxFragments == 3

(* ------------------------- optional values ---------------------------- *)
\* Python's None against a text or a timestamp, a str literal, an int
None == [some |-> FALSE, val |-> <<>>]
NoneStr == [some |-> FALSE, val |-> ""]
NoneInt == [some |-> FALSE, val |-> 0]
Some(v) == [some |-> TRUE, val |-> v]

(* ------------------------- clock and dates ---------------------------- *)
\* floor division, also for negative numerators (Python's //)
FloorDiv(a, b) == IF a >= 0 THEN a \div b ELSE -((-a + b - 1) \div b)

\* datetime.utcnow(): the UTC date and time of day the clock shows
utcnow == [day |-> now \div TicksPerDay, tod |-> now % TicksPerDay]

\* date.today(): the date of the LOCAL time, utc + tz
today == FloorDiv(now + tz, TicksPerDay)

\* datetime.isoformat(): zero-padded date digits, then the time of day
isoformat(dt) == <<dt.day \div 10, dt.day % 10, dt.tod>>

\* date.isoformat(): the zero-padded date digits
date_isoformat(d) == <<d \div 10, d % 10>>

Digit == 0..9

\* datetime.fromisoformat(): a date with or without a time of day; None
\* stands for ValueError
fromisoformat(s) ==
    IF Len(s) \in {2, 3} /\ \A i \in 1..Len(s) : s[i] \in Digit
    THEN IF Len(s) = 2
         THEN Some([day |-> s[1] * 10 + s[2], tod |-> 0])
         ELSE IF s[3] < TicksPerDay
         THEN Some([day |-> s[1] * 10 + s[2], tod |-> s[3]])
         ELSE None
    ELSE None

\* a timestamp no isoformat() produces and fromisoformat() rejects: ""
MalformedTs == <<>>

(* -------------------- SQLite: ORDER BY ... LIMIT ---------------------- *)
\* bytewise comparison of two TEXT values (memcmp, shorter prefix first)
RECURSIVE TextLess(_, _)
TextLess(a, b) ==
    IF b = <<>> THEN FALSE
    ELSE IF a = <<>> THEN TRUE
    ELSE IF a[1] # b[1] THEN a[1] < b[1]
    ELSE TextLess(Tail(a), Tail(b))

\* a sorter that puts a row in front of the rows of its own timestamp
RECURSIVE SorterInsertBeforeEqual(_, _)
SorterInsertBeforeEqual(sorted, r) ==
    IF sorted = <<>> THEN <<r>>
    ELSE IF ~TextLess(r.timestamp, Head(sorted).timestamp)
         THEN <<r>> \o sorted
         ELSE <<Head(sorted)>> \o SorterInsertBeforeEqual(Tail(sorted), r)

\* put row r behind every row of sorted whose timestamp is >= r's
RECURSIVE SorterInsert(_, _)
SorterInsert(sorted, r) ==
    IF sorted = <<>> THEN <<r>>
    ELSE IF TextLess(Head(sorted).timestamp, r.timestamp)
         THEN <<r>> \o sorted
         ELSE <<Head(sorted)>> \o SorterInsert(Tail(sorted), r)

\* ORDER BY timestamp DESC over a table scanned in rowid order: rows with
\* equal timestamps leave the sorter in the order they were scanned
RECURSIVE OrderByTimestampDesc(_)
OrderByTimestampDesc(rows) ==
    IF rows = <<>> THEN <<>>
    ELSE SorterInsert(OrderByTimestampDesc(SubSeq(rows, 1, Len(rows) - 1)),
                      rows[Len(rows)])

\* LIMIT n: a negative n is no limit at all
Limit(rows, n) ==
    IF n < 0 \/ n >= Len(rows) THEN rows ELSE SubSeq(rows, 1, n)

(* --------------------------- storage.py ------------------------------- *)
\* the dict insert_mood returns, which is also the row it stores
MoodEntry(ts, mood, energy, focus) ==
    [timestamp |-> ts, mood |-> mood, energy |-> energy, focus |-> focus]

\* the row insert_action stores: success as INTEGER 0/1
ActionRow(ts, action, success) ==
    [timestamp |-> ts, action |-> action,
     success |-> IF success THEN 1 ELSE 0]

\* get_mood_history(limit) over the table
get_mood_history(logs, limit) == Limit(OrderByTimestampDesc(logs), limit)

\* get_action_history(limit) over the table: success back to a bool
get_action_history(logs, limit) ==
    LET rows == Limit(OrderByTimestampDesc(logs), limit)
    IN  [i \in 1..Len(rows) |->
            [timestamp |-> rows[i].timestamp, action |-> rows[i].action,
             success |-> rows[i].success # 0]]

\* a query without its WHERE clause
SelectAnyOutcome(rows) == rows

RECURSIVE SelectSuccess(_)
\* WHERE success = 1
SelectSuccess(rows) ==
    IF rows = <<>> THEN <<>>
    ELSE IF Head(rows).success = 1
         THEN <<Head(rows)>> \o SelectSuccess(Tail(rows))
         ELSE SelectSuccess(Tail(rows))

RECURSIVE UniqueDates(_, _)
\* the loop over rows: parse, skip what does not parse, keep first sight
UniqueDates(rows, seen) ==
    IF rows = <<>> THEN <<>>
    ELSE LET dt == fromisoformat(Head(rows).timestamp)
         IN  IF ~dt.some THEN UniqueDates(Tail(rows), seen)
             ELSE IF dt.val.day \in seen THEN UniqueDates(Tail(rows), seen)
             ELSE <<dt.val.day>> \o
                  UniqueDates(Tail(rows), seen \cup {dt.val.day})

RECURSIVE SortInsertDesc(_, _)
SortInsertDesc(sorted, d) ==
    IF sorted = <<>> THEN <<d>>
    ELSE IF d > Head(sorted) THEN <<d>> \o sorted
    ELSE <<Head(sorted)>> \o SortInsertDesc(Tail(sorted), d)

RECURSIVE SortReverse(_)
\* unique_dates.sort(reverse=True)
SortReverse(ds) ==
    IF ds = <<>> THEN <<>>
    ELSE SortInsertDesc(SortReverse(Tail(ds)), Head(ds))

\* a walk that takes a date after the expected one for a gap
StreakStepFutureBreaks(d, expected) ==
    IF d = expected THEN "count" ELSE "break"

\* one iteration of the walk: what the loop does with date d
StreakStep(d, expected) ==
    IF d = expected THEN "count"
    ELSE IF d > expected THEN "skip"
    ELSE "break"

RECURSIVE StreakWalk(_, _, _)
\* for d in unique_dates: ... with the loop's streak and expected
StreakWalk(ds, streak, expected) ==
    IF ds = <<>> THEN streak
    ELSE LET step == StreakStep(Head(ds), expected)
         IN  IF step = "count"
             THEN StreakWalk(Tail(ds), streak + 1, expected - 1)
             ELSE IF step = "skip"
             THEN StreakWalk(Tail(ds), streak, expected)
             ELSE streak

\* the oldest date instead of the newest
LastActionDateOldest(unique_dates) ==
    Some(date_isoformat(unique_dates[Len(unique_dates)]))

\* unique_dates[0].isoformat()
LastActionDate(unique_dates) == Some(date_isoformat(unique_dates[1]))

\* get_action_streak() over the table
get_action_streak(logs) ==
    LET rows == OrderByTimestampDesc(SelectSuccess(logs))
        unique_dates == SortReverse(UniqueDates(rows, {}))
    IN  IF rows = <<>> THEN [streak_days |-> 0, last_action_date |-> None]
        ELSE IF unique_dates = <<>>
        THEN [streak_days |-> 0, last_action_date |-> None]
        ELSE [streak_days |-> StreakWalk(unique_dates, 0, today),
              last_action_date |-> LastActionDate(unique_dates)]

(* ------------------------------- text --------------------------------- *)
LowerChar(c) ==
    CASE c = "A" -> "a" [] c = "B" -> "b" [] c = "C" -> "c" [] c = "D" -> "d"
      [] c = "E" -> "e" [] c = "F" -> "f" [] c = "G" -> "g" [] c = "H" -> "h"
      [] c = "I" -> "i" [] c = "J" -> "j" [] c = "K" -> "k" [] c = "L" -> "l"
      [] c = "M" -> "m" [] c = "N" -> "n" [] c = "O" -> "o" [] c = "P" -> "p"
      [] c = "Q" -> "q" [] c = "R" -> "r" [] c = "S" -> "s" [] c = "T" -> "t"
      [] c = "U" -> "u" [] c = "V" -> "v" [] c = "W" -> "w" [] c = "X" -> "x"
      [] c = "Y" -> "y" [] c = "Z" -> "z"
      [] OTHER -> c

\* a lower() that leaves its argument as it is
lower_unchanged(s) == s

\* str.lower()
lower(s) == [i \in 1..Len(s) |-> LowerChar(s[i])]

S_low == <<"l", "o", "w">>
S_neutral == <<"n", "e", "u", "t", "r", "a", "l">>
S_good == <<"g", "o", "o", "d">>
S_medium == <<"m", "e", "d", "i", "u", "m">>
S_high == <<"h", "i", "g", "h">>
S_drifting == <<"d", "r", "i", "f", "t", "i", "n", "g">>
S_ok == <<"o", "k">>
S_locked_in == <<"l", "o", "c", "k", "e", "d", "-", "i", "n">>
S_lights == <<"l", "i", "g", "h", "t", "s">>

(* ------------------------- main.py: actuate --------------------------- *)
\* dict.update(): the keys of u override those of d
Update(d, u) ==
    [k \in DOMAIN d \cup DOMAIN u |-> IF k \in DOMAIN u THEN u[k] ELSE d[k]]

GroundLights ==
    [scene |-> "neutral", color_temp_k |-> 2700, brightness |-> 45,
     effect |-> "steady", duration_s |-> 1800]

GroundSpeaker ==
    [soundscape |-> "silence", volume |-> 20, fade_in_s |-> 5,
     duration_s |-> 0]

GroundRobot ==
    [script |-> "idle_presence", tone |-> "calm", line |-> NoneStr,
     task |-> NoneStr, timer_s |-> NoneInt]

\* the rule of step 4
LowLowRule(mood, energy) == mood = S_low /\ energy = S_low

\* a streak that has to exceed three days
StreakNuanceAbove3(streak_days) == streak_days > 3

\* the condition of step 5
StreakNuance(streak_days) == streak_days >= 3

\* steps 3 to 5: the three command structs
Commands(mood, energy, streak_days) ==
    LET fires == LowLowRule(mood, energy)
        lights ==
            IF fires
            THEN Update(GroundLights,
                        [scene |-> "ember", color_temp_k |-> 2200,
                         brightness |-> 20, effect |-> "breathe",
                         duration_s |-> 900])
            ELSE GroundLights
        speaker ==
            IF fires
            THEN Update(GroundSpeaker,
                        [soundscape |-> "rain_soft", volume |-> 22,
                         fade_in_s |-> 8, duration_s |-> 600])
            ELSE GroundSpeaker
        robot ==
            IF fires
            THEN Update(GroundRobot,
                        [script |-> "micro_step_support", tone |-> "soft",
                         line |-> Some("We go small. Stand up. Drink water. One minute."),
                         task |-> Some("drink_water"),
                         timer_s |-> Some(60)])
            ELSE GroundRobot
    IN  [lights |-> lights,
         speaker |-> speaker,
         robot |-> IF StreakNuance(streak_days)
                   THEN [robot EXCEPT !.script = @ \o "_protect_streak"]
                   ELSE robot]

\* the names the module app/storage.py binds
StorageNames ==
    { "sqlite3", "Path", "datetime", "date", "timedelta", "Dict", "Any",
      "List", "DB_PATH", "get_connection", "init_db", "insert_mood",
      "insert_action", "get_summary", "get_mood_history",
      "get_action_history", "get_action_streak", "get_latest_mood",
      "get_counts" }

\* getattr(storage, name, None) is callable
hasattr(name) == name \in StorageNames

\* the exception storage.<name> raises when the module binds no such name,
\* with the local variables of the handler that evaluated it
AttributeError(name, locals) ==
    [raised |-> "AttributeError", name |-> name, locals |-> locals]

(* ---------------------- main.py: suggest_action ----------------------- *)
\* the five suggestions; the dash of the source, U+2014, is written --
MsgSelfCare ==
    "You seem low today -- pick the smallest act of self-care you can manage: a glass of water, a stretch, or one deep breath."
MsgFiveMinutes ==
    "Energy is present even if mood is low -- try one tiny 5-minute task to regain control."
MsgTenMinutes ==
    "You're steady but scattered -- choose a single priority and work on it for 10 focused minutes."
MsgDeepFocus ==
    "Great conditions today -- move something meaningful forward with 20 minutes of deep focus."
MsgStartSmall ==
    "Start small -- what is one simple action Future You would thank you for?"

suggest_action(mood0, energy0, focus0) ==
    LET mood == lower(mood0)
        energy == lower(energy0)
        focus == lower(focus0)
    IN  IF mood = S_low /\ energy = S_low THEN MsgSelfCare
        ELSE IF mood = S_low /\ energy \in {S_medium, S_high}
        THEN MsgFiveMinutes
        ELSE IF mood = S_neutral /\ focus = S_drifting THEN MsgTenMinutes
        ELSE IF mood = S_good /\ energy \in {S_medium, S_high}
        THEN MsgDeepFocus
        ELSE MsgStartSmall

(* ------------------ main.py: infer_state_from_text -------------------- *)
LowMoodWords ==
    << <<"s", "a", "d">>,
       <<"d", "o", "w", "n">>,
       <<"d", "e", "p", "r", "e", "s", "s", "e", "d">>,
       <<"e", "m", "p", "t", "y">>,
       <<"t", "i", "r", "e", "d", " ", "o", "f">>,
       <<"o", "v", "e", "r", "w", "h", "e", "l", "m", "e", "d">> >>
GoodMoodWords ==
    << <<"g", "o", "o", "d">>,
       <<"g", "r", "e", "a", "t">>,
       <<"e", "x", "c", "i", "t", "e", "d">>,
       <<"h", "a", "p", "p", "y">>,
       <<"p", "u", "m", "p", "e", "d">>,
       <<"o", "p", "t", "i", "m", "i", "s", "t", "i", "c">> >>
LowEnergyWords ==
    << <<"e", "x", "h", "a", "u", "s", "t", "e", "d">>,
       <<"d", "r", "a", "i", "n", "e", "d">>,
       <<"t", "i", "r", "e", "d">>,
       <<"l", "o", "w", " ", "e", "n", "e", "r", "g", "y">>,
       <<"w", "i", "p", "e", "d">> >>
HighEnergyWords ==
    << <<"w", "i", "r", "e", "d">>,
       <<"e", "n", "e", "r", "g", "i", "z", "e", "d">>,
       <<"h", "y", "p", "e", "d">>,
       <<"r", "e", "a", "d", "y", " ", "t", "o", " ", "g", "o">>,
       <<"f", "u", "l", "l", " ", "o", "f", " ", "e", "n", "e", "r", "g", "y">> >>
DriftingWords ==
    << <<"s", "c", "a", "t", "t", "e", "r", "e", "d">>,
       <<"c", "a", "n", "'", "t", " ", "f", "o", "c", "u", "s">>,
       <<"d", "i", "s", "t", "r", "a", "c", "t", "e", "d">>,
       <<"a", "l", "l", " ", "o", "v", "e", "r", " ", "t", "h", "e", " ", "p", "l", "a", "c", "e">> >>
LockedInWords ==
    << <<"l", "o", "c", "k", "e", "d", " ", "i", "n">>,
       <<"d", "i", "a", "l", "e", "d", " ", "i", "n">>,
       <<"f", "o", "c", "u", "s", "e", "d">>,
       <<"i", "n", " ", "t", "h", "e", " ", "z", "o", "n", "e">> >>

\* word in t: word is a substring of t
In(word, t) ==
    \E i \in 1..(Len(t) - Len(word) + 1) :
        SubSeq(t, i, i + Len(word) - 1) = word

RECURSIVE AnyWordIn(_, _)
\* any(word in t for word in words)
AnyWordIn(words, t) ==
    IF words = <<>> THEN FALSE
    ELSE In(Head(words), t) \/ AnyWordIn(Tail(words), t)

\* a mood branch that tries the good-mood words first
InferMoodGoodFirst(t) ==
    IF AnyWordIn(GoodMoodWords, t) THEN [mood |-> S_good, confidence |-> "0.7"]
    ELSE IF AnyWordIn(LowMoodWords, t)
    THEN [mood |-> S_low, confidence |-> "0.7"]
    ELSE [mood |-> S_neutral, confidence |-> "0.4"]

\* the mood keywords: mood and confidence
InferMood(t) ==
    IF AnyWordIn(LowMoodWords, t) THEN [mood |-> S_low, confidence |-> "0.7"]
    ELSE IF AnyWordIn(GoodMoodWords, t)
    THEN [mood |-> S_good, confidence |-> "0.7"]
    ELSE [mood |-> S_neutral, confidence |-> "0.4"]

\* the energy keywords
InferEnergy(t) ==
    IF AnyWordIn(LowEnergyWords, t) THEN S_low
    ELSE IF AnyWordIn(HighEnergyWords, t) THEN S_high
    ELSE S_medium

\* the focus keywords
InferFocus(t) ==
    IF AnyWordIn(DriftingWords, t) THEN S_drifting
    ELSE IF AnyWordIn(LockedInWords, t) THEN S_locked_in
    ELSE S_ok

infer_state_from_text(text) ==
    LET t == lower(text)
    IN  [mood |-> InferMood(t).mood,
         energy |-> InferEnergy(t),
         focus |-> InferFocus(t),
         confidence |-> InferMood(t).confidence]

(* ------------------------------ inputs -------------------------------- *)
S_walk == <<"w", "a", "l", "k">>
S_lamp == <<"l", "a", "m", "p">>

\* the check-ins the clients send
MoodInputs ==
    { <<S_low, S_low, S_drifting>>,
      <<S_good, S_high, S_locked_in>> }

ActionInputs == {S_walk}

\* the ?device= values the clients send: none, a device, no device
DeviceInputs == { None, Some(S_lights), Some(S_lamp) }

\* the arguments suggest_action is tried on: the enumerated values, other
\* spellings of them, and values outside the enumerations
S_LOW == <<"L", "O", "W">>
S_Low == <<"L", "o", "w">>
S_GOOD == <<"G", "O", "O", "D">>
S_Neutral == <<"N", "e", "u", "t", "r", "a", "l">>
S_sad == <<"s", "a", "d">>
S_MEDIUM == <<"M", "E", "D", "I", "U", "M">>
S_High == <<"H", "i", "g", "h">>
S_tired == <<"t", "i", "r", "e", "d">>
S_DRIFTING == <<"D", "R", "I", "F", "T", "I", "N", "G">>

MoodArgs ==
    {S_low, S_LOW, S_Low, S_neutral, S_Neutral, S_good, S_GOOD, S_sad}
EnergyArgs == {S_low, S_LOW, S_medium, S_MEDIUM, S_high, S_High, S_tired}
FocusArgs == {S_drifting, S_DRIFTING, S_ok, S_locked_in}

\* the texts infer_state_from_text is tried on: up to MaxFragments of
\* these fragments, one after the other
F_im_exhausted ==
    <<"I", "'", "m", " ", "e", "x", "h", "a", "u", "s", "t", "e", "d">>
F_and == <<" ", "a", "n", "d", " ">>
F_sad == <<"s", "a", "d">>
F_GREAT == <<"G", "R", "E", "A", "T">>
F_tired == <<"t", "i", "r", "e", "d">>
F_of == <<" ", "o", "f">>
F_Wired == <<"W", "i", "r", "e", "d">>
F_cant_focus == <<"c", "a", "n", "'", "t", " ", "f", "o", "c", "u", "s">>
F_ed == <<"e", "d">>

Fragments ==
    { F_im_exhausted, F_and, F_sad, F_GREAT, F_tired, F_of, F_Wired,
      F_cant_focus, F_ed }

RECURSIVE Concat(_)
Concat(parts) ==
    IF parts = <<>> THEN <<>> ELSE Head(parts) \o Concat(Tail(parts))

TextInputs ==
    { Concat(parts) :
        parts \in UNION { [1..n -> Fragments] : n \in 0..MaxFragments } }

\* the action table the process may find in aurum.db when it starts: none,
\* or a row written by another tool with a timestamp that does not parse
InitialActionLogs ==
    { <<>>, <<[timestamp |-> MalformedTs, action |-> S_walk, success |-> 1]>> }

(* ----------------------------- operations ----------------------------- *)
\* init_db() on the database file the process finds
Init ==
    /\ now = 0
    /\ tz \in -MaxTz..MaxTz
    /\ mood_logs = <<>>
    /\ action_logs \in InitialActionLogs
    /\ actuation_logs = <<>>
    /\ call = [op |-> "init_db"]
    /\ ret = None

\* init_db() of a process that runs in UTC and finds no database file
InitFresh ==
    /\ now = 0
    /\ tz = 0
    /\ mood_logs = <<>>
    /\ action_logs = <<>>
    /\ actuation_logs = <<>>
    /\ call = [op |-> "init_db"]
    /\ ret = None

\* time passes: the clock moves on by one tick
Tick ==
    /\ now' = now + 1
    /\ call' = [op |-> "tick"]
    /\ ret' = None
    /\ UNCHANGED <<tz, mood_logs, action_logs, actuation_logs>>

\* time passes: the clock moves on by one day
NextDay ==
    /\ now' = now + TicksPerDay
    /\ call' = [op |-> "tick"]
    /\ ret' = None
    /\ UNCHANGED <<tz, mood_logs, action_logs, actuation_logs>>

insert_mood(mood, energy, focus) ==
    /\ LET entry == MoodEntry(isoformat(utcnow), mood, energy, focus)
       IN  /\ mood_logs' = Append(mood_logs, entry)
           /\ ret' = entry
    /\ call' = [op |-> "insert_mood"]
    /\ UNCHANGED <<now, tz, action_logs, actuation_logs>>

insert_action(action, success) ==
    /\ LET ts == isoformat(utcnow)
       IN  /\ action_logs' = Append(action_logs, ActionRow(ts, action, success))
           /\ ret' = [timestamp |-> ts, action |-> action, success |-> success]
    /\ call' = [op |-> "insert_action"]
    /\ UNCHANGED <<now, tz, mood_logs, actuation_logs>>

mood_history(limit) ==
    /\ call' = [op |-> "get_mood_history", limit |-> limit]
    /\ ret' = get_mood_history(mood_logs, limit)
    /\ UNCHANGED <<now, tz, mood_logs, action_logs, actuation_logs>>

action_history(limit) ==
    /\ call' = [op |-> "get_action_history", limit |-> limit]
    /\ ret' = get_action_history(action_logs, limit)
    /\ UNCHANGED <<now, tz, mood_logs, action_logs, actuation_logs>>

action_streak ==
    /\ call' = [op |-> "get_action_streak"]
    /\ ret' = get_action_streak(action_logs)
    /\ UNCHANGED <<now, tz, mood_logs, action_logs, actuation_logs>>

\* steps 1 to 5 compute the plan; the handler then evaluates
\* storage.insert_actuation, a name app/storage.py does not bind, and the
\* AttributeError ends it: nothing is stored, and the response and the
\* device filter that follow the call are never reached
actuate(device) ==
    LET history == get_mood_history(mood_logs, 1)
        has_last == history # <<>>
        mood == IF has_last THEN history[1].mood ELSE S_neutral
        energy == IF has_last THEN history[1].energy ELSE S_medium
        focus == IF has_last THEN history[1].focus ELSE S_ok
        streak == IF hasattr("get_action_streak")
                  THEN get_action_streak(action_logs)
                  ELSE [streak_days |-> 0, last_action_date |-> None]
        streak_days == streak.streak_days
        plan == Commands(mood, energy, streak_days)
    IN  /\ ~hasattr("insert_actuation")
        /\ ret' = AttributeError("insert_actuation",
                                 [mood |-> mood, energy |-> energy,
                                  focus |-> focus, streak_days |-> streak_days,
                                  lights |-> plan.lights,
                                  speaker |-> plan.speaker,
                                  robot |-> plan.robot, device |-> device])
        /\ call' = [op |-> "actuate", device |-> device]
        /\ UNCHANGED <<now, tz, mood_logs, action_logs, actuation_logs>>

(* ------------------- the action log and its streak -------------------- *)
NextStreak ==
    \/ now < MaxTime /\ Tick
    \/ Len(action_logs) < MaxActions
       /\ \E a \in ActionInputs, s \in BOOLEAN : insert_action(a, s)
    \/ action_streak

SpecStreak == Init /\ [][NextStreak]_vars

(* ---------------------- the bounded histories ------------------------- *)
NextHistory ==
    \/ now < MaxHistoryTime /\ Tick
    \/ Len(mood_logs) < MaxHistoryRows
       /\ \E m \in MoodInputs : insert_mood(m[1], m[2], m[3])
    \/ Len(action_logs) < MaxHistoryRows
       /\ \E a \in ActionInputs, s \in BOOLEAN : insert_action(a, s)
    \/ \E n \in -1..MaxLimit : mood_history(n)
    \/ \E n \in -1..MaxLimit : action_history(n)

SpecHistory == InitFresh /\ [][NextHistory]_vars

(* ------------------------ the actuation plans ------------------------- *)
NextActuate ==
    \/ now + TicksPerDay <= MaxTime /\ NextDay
    \/ Len(mood_logs) < MaxMoods
       /\ \E m \in MoodInputs : insert_mood(m[1], m[2], m[3])
    \/ Len(action_logs) < MaxActions
       /\ \E a \in ActionInputs : insert_action(a, TRUE)
    \/ \E d \in DeviceInputs : actuate(d)

SpecActuate == InitFresh /\ [][NextActuate]_vars

(* ----------------------- the suggestion engine ------------------------ *)
\* a request with its arguments is waiting
InitSuggest ==
    /\ now = 0
    /\ tz = 0
    /\ mood_logs = <<>>
    /\ action_logs = <<>>
    /\ actuation_logs = <<>>
    /\ call \in { [op |-> "request", mood |-> m, energy |-> e, focus |-> f] :
                    m \in MoodArgs, e \in EnergyArgs, f \in FocusArgs }
    /\ ret = None

suggest ==
    /\ call.op = "request"
    /\ call' = [call EXCEPT !.op = "suggest_action"]
    /\ ret' = suggest_action(call.mood, call.energy, call.focus)
    /\ UNCHANGED <<now, tz, mood_logs, action_logs, actuation_logs>>

NextSuggest == suggest

SpecSuggest == InitSuggest /\ [][NextSuggest]_vars

(* ------------------------ the text classifier ------------------------- *)
InitInfer ==
    /\ now = 0
    /\ tz = 0
    /\ mood_logs = <<>>
    /\ action_logs = <<>>
    /\ actuation_logs = <<>>
    /\ call \in { [op |-> "request", text |-> t] : t \in TextInputs }
    /\ ret = None

infer_mood ==
    /\ call.op = "request"
    /\ call' = [call EXCEPT !.op = "infer_state_from_text"]
    /\ ret' = infer_state_from_text(call.text)
    /\ UNCHANGED <<now, tz, mood_logs, action_logs, actuation_logs>>

NextInfer == infer_mood

SpecInfer == InitInfer /\ [][NextInfer]_vars

(* ------------------- main.py: coach and checkin_text ------------------ *)
\* str(streak_days) inside an f-string
str(n) == ToString(n)

\* step 4: the streak-aware clause; each literal of the source begins with
\* a space, and its dash, U+2014, is written --
extra(streak_days) ==
    IF streak_days >= 3
    THEN " You're on a " \o str(streak_days)
            \o "-day streak. Protect it with one small action today."
    ELSE IF streak_days = 1 \/ streak_days = 2
    THEN " Good start -- you're at " \o str(streak_days)
            \o " day of action. Let's keep it going."
    ELSE " Let's just focus on winning today with one meaningful action."

\* f"{base_suggestion} {extra}"
suggestion(base_suggestion, an_extra) == base_suggestion \o " " \o an_extra

\* the streak the handlers pull through getattr(storage, ...)
streak_data ==
    IF hasattr("get_action_streak")
    THEN get_action_streak(action_logs)
    ELSE [streak_days |-> 0, last_action_date |-> None]

MsgNoCheckins ==
    "No mood check-ins found yet. Do a quick check-in first so I can suggest something."

coach ==
    LET history == get_mood_history(mood_logs, 1)
    IN  /\ ret' =
              IF history = <<>>
              THEN [message |-> MsgNoCheckins, suggestion |-> NoneStr]
              ELSE LET last == history[1]
                       base_suggestion ==
                           suggest_action(last.mood, last.energy, last.focus)
                   IN  [based_on |->
                            [timestamp |-> last.timestamp, mood |-> last.mood,
                             energy |-> last.energy, focus |-> last.focus],
                        streak |-> streak_data,
                        suggestion |->
                            Some(suggestion(base_suggestion,
                                            extra(streak_data.streak_days)))]
        /\ call' = [op |-> "coach"]
        /\ UNCHANGED <<now, tz, mood_logs, action_logs, actuation_logs>>

checkin_text(text) ==
    LET inferred == infer_state_from_text(text)
        entry == MoodEntry(isoformat(utcnow), inferred.mood, inferred.energy,
                           inferred.focus)
        base_suggestion ==
            suggest_action(inferred.mood, inferred.energy, inferred.focus)
    IN  /\ mood_logs' = Append(mood_logs, entry)
        /\ ret' = [status |-> "stored", input_text |-> text,
                   inferred |-> inferred, entry |-> entry,
                   streak |-> streak_data,
                   suggestion |->
                       Some(suggestion(base_suggestion,
                                       extra(streak_data.streak_days)))]
        /\ call' = [op |-> "checkin_text"]
        /\ UNCHANGED <<now, tz, action_logs, actuation_logs>>

\* the texts the auto-checkin is sent: low and tired, good, scattered
CheckinTexts ==
    { Concat(<<F_im_exhausted, F_and, F_sad>>), F_GREAT, F_cant_focus }

NextCoach ==
    \/ now + TicksPerDay <= MaxTime /\ NextDay
    \/ Len(mood_logs) < MaxMoods
       /\ \E m \in MoodInputs : insert_mood(m[1], m[2], m[3])
    \/ Len(mood_logs) < MaxMoods
       /\ \E t \in CheckinTexts : checkin_text(t)
    \/ Len(action_logs) < MaxActions
       /\ \E a \in ActionInputs : insert_action(a, TRUE)
    \/ coach

SpecCoach == InitFresh /\ [][NextCoach]_vars

(* -------------------------- the whole program ------------------------- *)
\* every operation; the claims below are checked under the specifications
\* of the parts above, whose state spaces are small enough to exhaust
Next == NextStreak \/ NextHistory \/ NextActuate \/ NextCoach

Spec == Init /\ [][Next]_vars

(* ------------------- claims about the action streak ------------------- *)
\* the UTC dates that hold a successful action with a parseable timestamp
SuccessDays(logs) ==
    { fromisoformat(logs[i].timestamp).val.day :
        i \in { j \in 1..Len(logs) :
                  /\ logs[j].success = 1
                  /\ fromisoformat(logs[j].timestamp).some } }

RECURSIVE ConsecutiveDays(_, _)
\* how many consecutive days of the set end at day d
ConsecutiveDays(days, d) ==
    IF d \in days THEN 1 + ConsecutiveDays(days, d - 1) ELSE 0

MaxOf(S) == CHOOSE x \in S : \A y \in S : y <= x

RECURSIVE WithoutFuture(_)
WithoutFuture(logs) ==
    IF logs = <<>> THEN <<>>
    ELSE LET dt == fromisoformat(Head(logs).timestamp)
         IN  IF Head(logs).success = 1 /\ dt.some /\ dt.val.day > today
             THEN WithoutFuture(Tail(logs))
             ELSE <<Head(logs)>> \o WithoutFuture(Tail(logs))

C6_LastActionDate ==
    call.op = "get_action_streak" =>
        LET days == SuccessDays(action_logs)
        IN  IF days = {}
            THEN ret = [streak_days |-> 0, last_action_date |-> None]
            ELSE /\ ret.last_action_date.some
                 /\ ret.last_action_date.val = date_isoformat(MaxOf(days))

\* the last success lies two days back: no streak, but a last_action_date
C6_Witness ==
    /\ call.op = "get_action_streak"
    /\ ret.streak_days = 0
    /\ ret.last_action_date = Some(date_isoformat(today - 2))

\* C7: a successful action stamped with the current UTC date gives
\* streak_days >= 1, whatever the offset of the local date (as claimed).
C7_TodayUtcCounts ==
    (/\ call.op = "get_action_streak"
     /\ utcnow.day \in SuccessDays(action_logs))
        => ret.streak_days >= 1

(* ----------------------- claims about histories ----------------------- *)
\* C3: insert_mood(m, e, f) followed at once by get_mood_history(1) returns
\* exactly the entry just inserted (as claimed).
C3_ReadYourWrite ==
    [][(/\ call.op = "insert_mood"
        /\ call'.op = "get_mood_history"
        /\ call'.limit = 1) => ret' = <<ret>>]_vars

\* the entries a history is drawn from, as the history renders them
MoodEntries(logs) == logs
ActionEntries(logs) ==
    [i \in 1..Len(logs) |->
        [timestamp |-> logs[i].timestamp, action |-> logs[i].action,
         success |-> logs[i].success = 1]]

\* result is rows idx[1], idx[2], ... of entries: distinct rows, by
\* descending timestamp, equal timestamps in insertion order, and no row
\* left out has a greater timestamp than a row returned
NewestFirst(result, entries) ==
    \E idx \in [1..Len(result) -> 1..Len(entries)] :
        /\ \A i \in 1..Len(result) : result[i] = entries[idx[i]]
        /\ \A i, j \in 1..Len(result) : i < j =>
              \/ TextLess(entries[idx[j]].timestamp, entries[idx[i]].timestamp)
              \/ /\ entries[idx[j]].timestamp = entries[idx[i]].timestamp
                 /\ idx[i] < idx[j]
        /\ \A i \in 1..Len(result) :
              \A m \in (1..Len(entries)) \ {idx[k] : k \in 1..Len(result)} :
                  ~TextLess(entries[idx[i]].timestamp, entries[m].timestamp)

HistoryEntries ==
    IF call.op = "get_mood_history" THEN MoodEntries(mood_logs)
    ELSE ActionEntries(action_logs)

MinOf2(a, b) == IF a < b THEN a ELSE b

\* C4 as claimed: for every limit, at most limit entries are returned (none,
\* then, for a limit below 1), the ones with the greatest timestamps, newest
\* first, ties in insertion order.
C4_AtMostLimitAnyLimit ==
    call.op \in {"get_mood_history", "get_action_history"} =>
        /\ Len(ret) <= IF call.limit < 0 THEN 0 ELSE call.limit
        /\ NewestFirst(ret, HistoryEntries)

\* C4 amended: for a limit >= 0 the min(limit, stored) entries with the
\* greatest timestamps are returned; for a negative limit all stored
\* entries are; either way newest first, ties in insertion order.
C4_NewestFirstWithinLimit ==
    call.op \in {"get_mood_history", "get_action_history"} =>
        /\ Len(ret) = IF call.limit < 0 THEN Len(HistoryEntries)
                      ELSE MinOf2(call.limit, Len(HistoryEntries))
        /\ NewestFirst(ret, HistoryEntries)

\* limit 1 over two different entries of one timestamp: the history is cut
\* and holds the one inserted first
C4_Witness ==
    /\ call.op = "get_mood_history"
    /\ call.limit = 1
    /\ Len(mood_logs) = 2
    /\ mood_logs[1].timestamp = mood_logs[2].timestamp
    /\ mood_logs[1] # mood_logs[2]
    /\ ret = <<mood_logs[1]>>

(* --------------------- claims about actuation plans ------------------- *)
\* the support preset and the baseline, field by field
PresetLights(support) ==
    IF support
    THEN [scene |-> "ember", color_temp_k |-> 2200, brightness |-> 20,
          effect |-> "breathe", duration_s |-> 900]
    ELSE [scene |-> "neutral", color_temp_k |-> 2700, brightness |-> 45,
          effect |-> "steady", duration_s |-> 1800]

PresetSpeaker(support) ==
    IF support
    THEN [soundscape |-> "rain_soft", volume |-> 22, fade_in_s |-> 8,
          duration_s |-> 600]
    ELSE [soundscape |-> "silence", volume |-> 20, fade_in_s |-> 5,
          duration_s |-> 0]

PresetRobot(support, protect) ==
    IF support
    THEN [script |-> IF protect THEN "micro_step_support_protect_streak"
                     ELSE "micro_step_support",
          tone |-> "soft",
          line |-> Some("We go small. Stand up. Drink water. One minute."),
          task |-> Some("drink_water"), timer_s |-> Some(60)]
    ELSE [script |-> IF protect THEN "idle_presence_protect_streak"
                     ELSE "idle_presence",
          tone |-> "calm", line |-> NoneStr, task |-> NoneStr,
          timer_s |-> NoneInt]

\* record r holds the plan that belongs to the state it names
HoldsItsPlan(r) ==
    LET support == r.mood = S_low /\ r.energy = S_low
    IN  /\ r.lights = PresetLights(support)
        /\ r.speaker = PresetSpeaker(support)
        /\ r.robot = PresetRobot(support, r.streak_days >= 3)

IsError(r) == DOMAIN r = {"error"}

\* the requested devices among the inputs that name no command struct
UnknownDevices == {Some(S_lamp)}

\* C2: every actuate appends exactly one record to the actuation log, which
\* holds the requested device and the full plan, before it returns; for an
\* unknown device such as "lamp" the record is still written and the result
\* is an error value, and otherwise the result is a command set.
C2_EveryPlanRecorded ==
    [][call'.op = "actuate" =>
          /\ Len(actuation_logs') = Len(actuation_logs) + 1
          /\ SubSeq(actuation_logs', 1, Len(actuation_logs)) = actuation_logs
          /\ LET r == actuation_logs'[Len(actuation_logs')]
             IN  /\ r.requested_device = call'.device
                 /\ HoldsItsPlan(r)
          /\ IsError(ret') <=> call'.device \in UnknownDevices
          /\ ~IsError(ret') => DOMAIN ret'.commands # {}]_vars

\* the stored mood entries no other entry is newer than
LatestMoods ==
    { i \in 1..Len(mood_logs) :
        \A j \in 1..Len(mood_logs) :
            ~TextLess(mood_logs[i].timestamp, mood_logs[j].timestamp) }

Letters ==
    <<"a", "b", "c", "d", "e", "f", "g", "h", "i", "j", "k", "l", "m",
      "n", "o", "p", "q", "r", "s", "t", "u", "v", "w", "x", "y", "z">>
Capitals ==
    <<"A", "B", "C", "D", "E", "F", "G", "H", "I", "J", "K", "L", "M",
      "N", "O", "P", "Q", "R", "S", "T", "U", "V", "W", "X", "Y", "Z">>

\* the same character, or the two cases of one letter
SameLetter(x, y) ==
    x = y \/ \E i \in 1..26 : {x, y} = {Letters[i], Capitals[i]}

\* value a spells word w, whatever the case of its letters
Spells(a, w) ==
    Len(a) = Len(w) /\ \A i \in 1..Len(w) : SameLetter(a[i], w[i])

\* C9: suggest_action follows the rule table from the top, first match
\* wins, whatever the case of the letters: low/low self-care; low with
\* medium or high energy the 5-minute task; neutral and drifting the
\* 10-minute task; good with medium or high energy deep focus; anything
\* else, values outside the enumerations included, the start-small message.
C9_RuleTable ==
    call.op = "suggest_action" =>
        LET m == call.mood
            e == call.energy
            f == call.focus
            energetic == Spells(e, S_medium) \/ Spells(e, S_high)
        IN  /\ ret =
                 IF Spells(m, S_low) /\ Spells(e, S_low) THEN MsgSelfCare
                 ELSE IF Spells(m, S_low) /\ energetic THEN MsgFiveMinutes
                 ELSE IF Spells(m, S_neutral) /\ Spells(f, S_drifting)
                 THEN MsgTenMinutes
                 ELSE IF Spells(m, S_good) /\ energetic THEN MsgDeepFocus
                 ELSE MsgStartSmall
            /\ <<m, e, f>> = <<S_low, S_low, S_drifting>>
                  => ret = MsgSelfCare
            /\ <<m, e, f>> = <<S_good, S_high, S_locked_in>>
                  => ret = MsgDeepFocus
            /\ <<m, e, f>> = <<S_neutral, S_medium, S_ok>>
                  => ret = MsgStartSmall

\* a rule matched through capital letters
C9_Witness ==
    /\ call.op = "suggest_action"
    /\ call.mood = S_GOOD
    /\ call.energy = S_High
    /\ ret = MsgDeepFocus

\* word w occurs in text t, whatever the case of the letters
Occurs(w, t) ==
    \E i \in 0..(Len(t) - Len(w)) :
        \A k \in 1..Len(w) : SameLetter(t[i + k], w[k])

AnyOccurs(words, t) == \E n \in 1..Len(words) : Occurs(words[n], t)

S_im_exhausted_and_sad == Concat(<<F_im_exhausted, F_and, F_sad>>)

\* C10: for every text, mood is low if a low-mood keyword occurs (also when
\* a good-mood keyword occurs too), else good if a good-mood keyword occurs,
\* else neutral; energy and focus likewise with medium and ok; confidence is
\* 0.7 exactly when a mood keyword occurs and 0.4 otherwise.  "I'm exhausted
\* and sad" gives mood low, energy low, confidence 0.7.
C10_KeywordPrecedence ==
    call.op = "infer_state_from_text" =>
        LET t == call.text
        IN  /\ ret.mood = IF AnyOccurs(LowMoodWords, t) THEN S_low
                          ELSE IF AnyOccurs(GoodMoodWords, t) THEN S_good
                          ELSE S_neutral
            /\ ret.energy = IF AnyOccurs(LowEnergyWords, t) THEN S_low
                            ELSE IF AnyOccurs(HighEnergyWords, t) THEN S_high
                            ELSE S_medium
            /\ ret.focus = IF AnyOccurs(DriftingWords, t) THEN S_drifting
                           ELSE IF AnyOccurs(LockedInWords, t)
                           THEN S_locked_in
                           ELSE S_ok
            /\ ret.confidence =
                  IF AnyOccurs(LowMoodWords, t) \/ AnyOccurs(GoodMoodWords, t)
                  THEN "0.7" ELSE "0.4"
            /\ t = S_im_exhausted_and_sad =>
                  /\ ret.mood = S_low
                  /\ ret.energy = S_low
                  /\ ret.confidence = "0.7"

\* "GREAT and sad": a good-mood and a low-mood keyword, and mood is low
C10_Witness ==
    /\ call.op = "infer_state_from_text"
    /\ call.text = Concat(<<F_GREAT, F_and, F_sad>>)
    /\ ret.mood = S_low
    /\ ret.confidence = "0.7"

(* ------------------- claims about the coaching flows ------------------ *)
\* the three clauses, as sentences
ClauseByStreak(streak_days) ==
    IF streak_days >= 3
    THEN "You're on a " \o ToString(streak_days)
            \o "-day streak. Protect it with one small action today."
    ELSE IF streak_days \in {1, 2}
    THEN "Good start -- you're at " \o ToString(streak_days)
            \o " day of action. Let's keep it going."
    ELSE "Let's just focus on winning today with one meaningful action."

\* the state a returned suggestion is based on
SuggestionState ==
    IF call.op = "coach" THEN ret.based_on ELSE ret.inferred

\* C11: in the coaching and auto-checkin flows the returned suggestion is
\* the base suggestion, one separating space, and the clause chosen by the
\* streak: protect-the-streak for streak_days >= 3, encouragement for 1 or
\* 2, the generic win-today clause otherwise.
C11_BaseSpaceClause ==
    (call.op \in {"coach", "checkin_text"} /\ ret.suggestion.some) =>
        ret.suggestion.val =
            suggest_action(SuggestionState.mood, SuggestionState.energy,
                           SuggestionState.focus)
              \o " " \o ClauseByStreak(ret.streak.streak_days)

====
